---- MODULE Spec2Model ----
(***************************************************************************)
(* A model of goban.py: the GoBoard class (constructor, draw, draw_lines,  *)
(* draw_multiple_lines, draw_starpoint(s), draw_test, write) and main.     *)
(*                                                                         *)
(* Lengths are the program's floats held in fixed point: one unit is       *)
(* 1/Scale of the program's unit (mm), so 0.15 is 150 and 23.7 is 23700.   *)
(* Python tuple/list index i is index i + 1 here.                          *)
(***************************************************************************)
EXTENDS Integers, Sequences, FiniteSets, TLC

VARIABLES pc, args, opt, self, drawing, calls, error, files

vars == <<pc, args, opt, self, drawing, calls, error, files>>

----------------------------------------------------------------------------
(* Bounds of the model *)

\* GoBoard API use: multiple_lines ranges over 1..MaxMultipleLines
MaxMultipleLines == 3
\* GoBoard API use: at most MaxWrites calls of write() are explored
MaxWrites == 2

----------------------------------------------------------------------------
(* Fixed point *)

Scale == 1000

\* Python's float / 2 on a fixed-point value (every halved value is even here)
Half(x) == IF x >= 0 THEN x \div 2 ELSE -((-x) \div 2)

\* int() and '%d' of a float: truncation toward zero, in whole units
Trunc(x) == IF x >= 0 THEN x \div Scale ELSE -((-x) \div Scale)

----------------------------------------------------------------------------
(* DefaultOptions, sizeOptions *)

default_margin == 15000
default_rounded_corners == 10000
default_spacing_horizontal == 22000
default_spacing_vertical == 23700
default_linewidth == 150
default_multiple_lines == 2
default_multiple_lines_spacing == 250
default_star_diameter == 4000

DefaultOptions ==
    [border |-> TRUE,
     margin |-> default_margin,
     rounded_corners |-> default_rounded_corners,
     spacing_horizontal |-> default_spacing_horizontal,
     spacing_vertical |-> default_spacing_vertical,
     linewidth |-> default_linewidth,
     multiple_lines |-> default_multiple_lines,
     multiple_lines_spacing |-> default_multiple_lines_spacing,
     star_diameter |-> default_star_diameter,
     unit |-> "mm",
     colors |-> [cut_stroke |-> "black", mark_stroke |-> "red", background |-> "white"],
     output |-> [goban |-> "goban.svg", test |-> "test.svg"]]

sizeOptions ==
    [k \in {"7", "9", "13", "19"} |->
        CASE k = "7" -> [lines_horizontal |-> 7, lines_vertical |-> 7,
                         star_points |-> << <<2, 2>>, <<4, 2>>, <<2, 4>>, <<4, 4>> >>]
          [] k = "9" -> [lines_horizontal |-> 9, lines_vertical |-> 9,
                         star_points |-> << <<2, 2>>, <<6, 2>>, <<4, 4>>, <<2, 6>>, <<6, 6>> >>]
          [] k = "13" -> [lines_horizontal |-> 13, lines_vertical |-> 13,
                          star_points |-> << <<3, 3>>, <<9, 3>>, <<6, 6>>, <<3, 9>>, <<9, 9>> >>]
          [] k = "19" -> [lines_horizontal |-> 19, lines_vertical |-> 19,
                          star_points |-> << <<3, 3>>, <<9, 3>>, <<15, 3>>, <<3, 9>>, <<9, 9>>,
                                             <<15, 9>>, <<3, 15>>, <<9, 15>>, <<15, 15>> >>]]

\* dict.update: the keys of new replace or extend those of old
Update(old, new) == new @@ old

----------------------------------------------------------------------------
(* State before anything has run *)

NoArgs == [parsed |-> FALSE]
NoOpt == [given |-> FALSE]
NoSelf == [constructed |-> FALSE]
NoDrawing == [isNone |-> TRUE]

Init ==
    /\ pc = "start"
    /\ args = NoArgs
    /\ opt = NoOpt
    /\ self = NoSelf
    /\ drawing = NoDrawing
    /\ calls = <<>>
    /\ error = "none"
    /\ files = <<>>

----------------------------------------------------------------------------
(* GoBoard.__init__ *)

\* Mutation of Width: a spacing per line instead of per gap between lines
Width_PerLine(o) ==
    o.lines_horizontal * o.spacing_horizontal + o.linewidth + o.margin * 2

\* the board width, with a margin at both sides
Width(o) ==
    (o.lines_horizontal - 1) * o.spacing_horizontal + o.linewidth + o.margin * 2

\* Mutation of HalfBoardAllowed: the parity test inverted
HalfBoardAllowed_Inverted(lines_vertical) == lines_vertical % 2 # 1

\* the half board check: an odd number of vertical lines
HalfBoardAllowed(lines_vertical) == lines_vertical % 2 # 0

\* Mutation of HalfLines: the center line is not counted
HalfLines_Floor(lines_vertical) == lines_vertical \div 2

\* (int)((lines_vertical + 1) / 2)
HalfLines(lines_vertical) == (lines_vertical + 1) \div 2

\* the board height: one margin for a half board, two for a full board;
\* lines_vertical is the count after halving
Height(o, lines_vertical) ==
    IF o.half_board
    THEN (lines_vertical - 1) * o.spacing_vertical + o.linewidth + o.margin
    ELSE (lines_vertical - 1) * o.spacing_vertical + o.linewidth + o.margin * 2

\* The constructor: the exception it raises ("none" if none) and the object
GoBoard_init(o) ==
    IF o.half_board /\ ~HalfBoardAllowed(o.lines_vertical)
    THEN [raised |-> "Exception", self |-> NoSelf]
    ELSE LET lv == IF o.half_board THEN HalfLines(o.lines_vertical)
                   ELSE o.lines_vertical
         IN [raised |-> "none",
             self |-> Update([o EXCEPT !.lines_vertical = lv],
                             [constructed |-> TRUE,
                              width |-> Width(o),
                              height |-> Height(o, lv)])]

----------------------------------------------------------------------------
(* Drawing primitives (svgwrite elements) and the Drawing *)

Rect(pos, size, rx, stroke, stroke_width, fill) ==
    [type |-> "rect", p1 |-> pos, p2 |-> size, r |-> rx,
     stroke |-> stroke, stroke_width |-> stroke_width, fill |-> fill]

Line(start, end, stroke, stroke_width) ==
    [type |-> "line", p1 |-> start, p2 |-> end, r |-> 0,
     stroke |-> stroke, stroke_width |-> stroke_width, fill |-> ""]

Circle(center, r, stroke, stroke_width) ==
    [type |-> "circle", p1 |-> center, p2 |-> center, r |-> r,
     stroke |-> stroke, stroke_width |-> stroke_width, fill |-> "none"]

\* '%f' of a float: the whole part and six decimals
FormatF(x) == [whole |-> x \div Scale, micro |-> (x % Scale) * (1000000 \div Scale)]

\* '%d' of a float: the whole part only
FormatD(x) == Trunc(x)

\* svgwrite.Drawing(size=('%f%s', '%f%s'), viewBox='0 0 %d %d')
NewDrawing(width, height, unit, kind) ==
    [isNone |-> FALSE,
     kind |-> kind,
     size |-> <<FormatF(width), FormatF(height)>>,
     unit |-> unit,
     viewBox |-> <<0, 0, FormatD(width), FormatD(height)>>,
     elements |-> <<>>]

\* list p with p[idx] += d, idx a Python index
AddAt(p, idx, d) == [p EXCEPT ![idx + 1] = @ + d]

RECURSIVE Flatten(_)
Flatten(ss) == IF ss = <<>> THEN <<>> ELSE Head(ss) \o Flatten(Tail(ss))

----------------------------------------------------------------------------
(* GoBoard.draw_multiple_lines, draw_lines *)

\* Mutation of Offset: the strokes centered on the logical line
Offset_Centered(l, multiple_lines, multiple_lines_spacing) ==
    Half((2 * l - (multiple_lines - 1)) * multiple_lines_spacing)

\* offset = (l - multiple_lines / 2.) * multiple_lines_spacing
Offset(l, multiple_lines, multiple_lines_spacing) ==
    Half((2 * l - multiple_lines) * multiple_lines_spacing)

\* for l in range(multiple_lines): the strokes of one logical line
draw_multiple_lines(s, start, end, dir_count) ==
    [k \in 1..s.multiple_lines |->
        LET offset == Offset(k - 1, s.multiple_lines, s.multiple_lines_spacing)
        IN Line(AddAt(start, dir_count, offset), AddAt(end, dir_count, offset),
                s.colors.mark_stroke, s.linewidth)]

\* Mutation of LineRange: the last line is not drawn
LineRange_Short(line_count) == 1..(line_count - 1)

\* for i in range(line_count)
LineRange(line_count) == 1..line_count

\* The calls of draw_multiple_lines that draw_lines makes, in order
draw_lines(s, start, direction) ==
    LET vertical == (direction = "vertical")
        line_count == IF vertical THEN s.lines_vertical ELSE s.lines_horizontal
        spacing == IF vertical THEN s.spacing_vertical ELSE s.spacing_horizontal
        line_length == IF vertical
                       THEN s.spacing_horizontal * (s.lines_horizontal - 1)
                       ELSE s.spacing_vertical * (s.lines_vertical - 1)
        dir_line == IF vertical THEN 0 ELSE 1
        dir_count == IF vertical THEN 1 ELSE 0
    IN [i \in LineRange(line_count) |->
           LET start_i == AddAt(start, dir_count, (i - 1) * spacing)
           IN [start |-> start_i,
               end |-> AddAt(start_i, dir_line, line_length),
               dir_count |-> dir_count,
               direction |-> direction]]

\* The line primitives that a sequence of draw_multiple_lines calls adds
Strokes(s, cs) ==
    Flatten([i \in 1..Len(cs) |->
                draw_multiple_lines(s, cs[i].start, cs[i].end, cs[i].dir_count)])

----------------------------------------------------------------------------
(* GoBoard.draw_starpoint, draw_starpoints *)

\* for l in range(multiple_lines): the circles of one star point
draw_starpoint(s, pos) ==
    [k \in 1..s.multiple_lines |->
        LET diameter == s.star_diameter +
                        ((k - 1) - s.multiple_lines) * s.multiple_lines_spacing
        IN Circle(pos, Half(diameter), s.colors.mark_stroke, s.linewidth)]

vert_pos_offset(s) == IF s.half_board THEN s.lines_vertical - 1 ELSE 0

\* Mutation of StillOnBoard: the points on the cut line are dropped too
StillOnBoard_Strict(point) == point[2] > 0

\* if(point[1] >= 0): the moved point is still on the board
StillOnBoard(point) == point[2] >= 0

\* the center of the moved point
StarCenter(s, start, point) ==
    <<start[1] + point[1] * s.spacing_horizontal - Half(s.multiple_lines_spacing),
      start[2] + point[2] * s.spacing_vertical - Half(s.multiple_lines_spacing)>>

draw_starpoints(s, start) ==
    LET moved == [i \in 1..Len(s.star_points) |->
                     <<s.star_points[i][1], s.star_points[i][2] - vert_pos_offset(s)>>]
        kept == SelectSeq(moved, StillOnBoard)
    IN Flatten([i \in 1..Len(kept) |-> draw_starpoint(s, StarCenter(s, start, kept[i]))])

----------------------------------------------------------------------------
(* GoBoard.draw *)

\* the border rectangle and, for a half board, the cut at the top
draw_border(s) ==
    LET borderwidth == s.width - s.linewidth
        borderpos == IF s.half_board THEN <<0, -s.rounded_corners>> ELSE <<0, 0>>
        borderheight == IF s.half_board
                        THEN s.height - s.linewidth + s.rounded_corners
                        ELSE s.height - s.linewidth
        border == Rect(borderpos, <<borderwidth, borderheight>>, s.rounded_corners,
                       s.colors.cut_stroke, s.linewidth, s.colors.background)
        top_cut == Line(<<0, 0>>, <<s.width, 0>>, s.colors.cut_stroke, s.linewidth)
    IN IF ~s.border THEN <<>>
       ELSE IF s.half_board THEN <<border, top_cut>>
       ELSE <<border>>

\* the top left point where the lines start
GridStart(s) == IF s.half_board THEN <<s.margin, 0>> ELSE <<s.margin, s.margin>>

\* draw(): the new drawing and the draw_multiple_lines calls made
draw(s) ==
    LET start == GridStart(s)
        cs == draw_lines(s, start, "vertical") \o draw_lines(s, start, "horizontal")
        d == NewDrawing(s.width, s.height, s.unit, "draw")
    IN [raised |-> "none",
        calls |-> cs,
        drawing |-> [d EXCEPT !.elements =
                        draw_border(s) \o Strokes(s, cs) \o draw_starpoints(s, start)]]

----------------------------------------------------------------------------
(* GoBoard.draw_test *)

\* tuples of linecount and spacing between them to test
test_lines ==
    << <<2, 100>>, <<2, 200>>, <<2, 300>>, <<2, 400>>, <<2, 500>>,
       <<3, 100>>, <<3, 200>>, <<3, 300>>, <<3, 400>>, <<3, 500>> >>

test_margin == 10000
test_line_length == 10000
test_spacing == 10000

\* the parameters of draw_multiple_lines after self
draw_multiple_lines_params == <<"start", "end", "dir_count">>

\* Python binds the positional arguments of a call to the parameters, and
\* raises TypeError when their number differs
CallBinds(params, given) == Len(given) = Len(params)

\* draw_test(): the drawing is created and bordered; the first pass of the
\* loop calls draw_multiple_lines with five arguments, which raises TypeError,
\* and had it returned, start[dir_count] += spacing on the tuple start raises
\* TypeError as well: no pass of the loop completes.
draw_test(s) ==
    LET width == test_line_length + 2 * test_margin
        height == Len(test_lines) * test_spacing + test_margin * 2
        d == NewDrawing(width, height, s.unit, "draw_test")
        border == Rect(<<0, 0>>, <<width, height>>, s.rounded_corners,
                       s.colors.cut_stroke, s.linewidth, s.colors.background)
        start == <<test_margin, test_margin>>
        end == AddAt(start, 0, test_line_length)
        given == <<start, end, test_lines[1][1], test_lines[1][2], 1>>
    IN IF CallBinds(draw_multiple_lines_params, given)
       THEN [raised |-> "TypeError",
             calls |-> << [start |-> given[1], end |-> given[2],
                           dir_count |-> given[3], direction |-> "test"] >>,
             drawing |-> [d EXCEPT !.elements =
                             <<border>> \o
                             draw_multiple_lines(s, given[1], given[2], given[3])]]
       ELSE [raised |-> "TypeError",
             calls |-> <<>>,
             drawing |-> [d EXCEPT !.elements = <<border>>]]

----------------------------------------------------------------------------
(* GoBoard.write *)

\* write(filename): draws first if there is no drawing, then saves it
write(s, d, filename) ==
    LET drawn == IF d.isNone THEN draw(s) ELSE [raised |-> "none", calls |-> <<>>, drawing |-> d]
    IN [raised |-> drawn.raised,
        calls |-> drawn.calls,
        drawing |-> drawn.drawing,
        saved |-> [filename |-> filename, drawing |-> drawn.drawing]]

----------------------------------------------------------------------------
(* Use of the class by a caller that builds the option dictionary itself *)

\* line counts, star points of the sizes; lines_vertical also one less (even)
ApiSizes ==
    {[sizeOptions[k] EXCEPT !.lines_vertical = @ - less] :
        k \in DOMAIN sizeOptions, less \in {0, 1}}

ApiOptions ==
    {Update(Update(so, DefaultOptions),
            [half_board |-> hb, border |-> b, margin |-> m,
             multiple_lines |-> ml, multiple_lines_spacing |-> mls]) :
        so \in ApiSizes, hb \in BOOLEAN, b \in BOOLEAN,
        m \in {5000, 15000}, ml \in 1..MaxMultipleLines, mls \in {100, 250}}

Construct ==
    /\ pc = "start"
    /\ \E o \in ApiOptions :
          LET res == GoBoard_init(o)
          IN /\ opt' = o
             /\ self' = res.self
             /\ error' = res.raised
             /\ pc' = IF res.raised = "none" THEN "constructed" ELSE "failed"
    /\ UNCHANGED <<args, drawing, calls, files>>

Draw ==
    /\ pc = "constructed"
    /\ LET res == draw(self)
       IN /\ drawing' = res.drawing
          /\ calls' = res.calls
          /\ error' = res.raised
    /\ UNCHANGED <<pc, args, opt, self, files>>

DrawTest ==
    /\ pc = "constructed"
    /\ LET res == draw_test(self)
       IN /\ drawing' = res.drawing
          /\ calls' = res.calls
          /\ error' = res.raised
    /\ UNCHANGED <<pc, args, opt, self, files>>

Write ==
    /\ pc = "constructed"
    /\ Len(files) < MaxWrites
    /\ \E filename \in {"out.svg"} :
          LET res == write(self, drawing, filename)
          IN /\ drawing' = res.drawing
             /\ calls' = IF drawing.isNone THEN res.calls ELSE calls
             /\ error' = res.raised
             /\ files' = Append(files, res.saved)
    /\ UNCHANGED <<pc, args, opt, self>>

Next == Construct \/ Draw \/ DrawTest \/ Write

Spec == Init /\ [][Next]_vars

----------------------------------------------------------------------------
(* main *)

Digits == {"0", "1", "2", "3", "4", "5", "6", "7", "8", "9"}

DigitValue(c) ==
    CASE c = "0" -> 0 [] c = "1" -> 1 [] c = "2" -> 2 [] c = "3" -> 3 [] c = "4" -> 4
      [] c = "5" -> 5 [] c = "6" -> 6 [] c = "7" -> 7 [] c = "8" -> 8 [] c = "9" -> 9

RECURSIVE DecimalValue(_)
DecimalValue(text) ==
    IF text = <<>> THEN 0
    ELSE 10 * DecimalValue(SubSeq(text, 1, Len(text) - 1)) + DigitValue(text[Len(text)])

\* int() of a command-line string: a nonempty run of digits, else ValueError
IsIntLiteral(text) == text # <<>> /\ \A i \in 1..Len(text) : text[i] \in Digits

\* A command-line value: the text given, or the default when the flag is absent
Given(text) == [given |-> TRUE, text |-> text]
Absent == [given |-> FALSE, text |-> <<>>]

\* the command lines explored
ArgvSet ==
    [size : {"7", "9", "13", "19", "5"},
     half_board : BOOLEAN,
     output : {"goban.svg", "out.svg"},
     test : BOOLEAN,
     no_border : BOOLEAN,
     rounded_corners : {Absent, Given(<<"0">>), Given(<<"2", "0">>),
                        Given(<<"2", ".", "5">>)},
     margin : {Absent, Given(<<"5">>), Given(<<"2", "0">>)}]

\* (int)(parse_opt.rounded_corners), in whole units
IntOfRoundedCorners(v) ==
    IF v.given THEN DecimalValue(v.text) ELSE Trunc(DefaultOptions.rounded_corners)

\* the options main hands to GoBoard
MainOptions(a) ==
    Update(Update(sizeOptions[a.size], DefaultOptions),
           [half_board |-> a.half_board,
            border |-> ~a.no_border,
            rounded_corners |-> IntOfRoundedCorners(a.rounded_corners) * Scale])

\* parse_args() up to the options: argparse exits on a size that is no choice,
\* int() raises on a radius that is no integer literal
MainParseArgs ==
    /\ pc = "start"
    /\ \E a \in ArgvSet :
          /\ args' = Update(a, [parsed |-> TRUE])
          /\ IF a.size \notin DOMAIN sizeOptions
             THEN /\ error' = "SystemExit"
                  /\ pc' = "aborted"
                  /\ opt' = opt
             ELSE IF a.rounded_corners.given /\ ~IsIntLiteral(a.rounded_corners.text)
             THEN /\ error' = "ValueError"
                  /\ pc' = "aborted"
                  /\ opt' = opt
             ELSE /\ error' = "none"
                  /\ pc' = "parsed"
                  /\ opt' = MainOptions(a)
    /\ UNCHANGED <<self, drawing, calls, files>>

\* b = GoBoard(options)
MainConstruct ==
    /\ pc = "parsed"
    /\ LET res == GoBoard_init(opt)
       IN /\ self' = res.self
          /\ error' = res.raised
          /\ pc' = IF res.raised = "none" THEN "built" ELSE "aborted"
    /\ UNCHANGED <<args, opt, drawing, calls, files>>

\* Mutation of MainDrawStep: an exception of the drawing is swallowed
MainDrawStep_Swallow(a, s) ==
    LET res == IF a.test THEN draw_test(s) ELSE draw(s)
    IN Update(res, [raised |-> "none", pc |-> "drawn"])

\* b.draw_test() or b.draw(); an exception ends the run
MainDrawStep(a, s) ==
    LET res == IF a.test THEN draw_test(s) ELSE draw(s)
    IN Update(res, [pc |-> IF res.raised = "none" THEN "drawn" ELSE "aborted"])

MainDraw ==
    /\ pc = "built"
    /\ LET res == MainDrawStep(args, self)
       IN /\ drawing' = res.drawing
          /\ calls' = res.calls
          /\ error' = res.raised
          /\ pc' = res.pc
    /\ UNCHANGED <<args, opt, self, files>>

\* the output file name, then b.write(parse_opt.output)
MainOutput(a) ==
    IF a.test /\ a.output = DefaultOptions.output.goban
    THEN DefaultOptions.output.test
    ELSE a.output

MainWrite ==
    /\ pc = "drawn"
    /\ LET res == write(self, drawing, MainOutput(args))
       IN /\ drawing' = res.drawing
          /\ calls' = IF drawing.isNone THEN res.calls ELSE calls
          /\ error' = res.raised
          /\ files' = Append(files, res.saved)
          /\ pc' = "done"
    /\ UNCHANGED <<args, opt, self>>

NextMain == MainParseArgs \/ MainConstruct \/ MainDraw \/ MainWrite

SpecMain == Init /\ [][NextMain]_vars

----------------------------------------------------------------------------
(* Vocabulary of the properties *)

\* the elements of drawing d of one type, in order
ElementsOfType(d, type) == SelectSeq(d.elements, LAMBDA e : e.type = type)

\* the strokes of the grid: the line primitives in the mark colour
GridStrokes(d) ==
    SelectSeq(d.elements, LAMBDA e : e.type = "line" /\ e.stroke = self.colors.mark_stroke)

\* a board exists and draw() produced its current drawing
BoardDrawn ==
    /\ pc \in {"constructed", "drawn", "done"}
    /\ ~drawing.isNone
    /\ drawing.kind = "draw"

\* draw_test() ran on the board
TestDrawn ==
    /\ ~drawing.isNone
    /\ drawing.kind = "draw_test"

\* the option dictionary is one of the four supported sizes
SupportedSize ==
    \E k \in DOMAIN sizeOptions :
        /\ opt.lines_horizontal = sizeOptions[k].lines_horizontal
        /\ opt.lines_vertical = sizeOptions[k].lines_vertical
        /\ opt.star_points = sizeOptions[k].star_points

----------------------------------------------------------------------------
(* C1: for every supported size with half_board false, one draw() of the   *)
(* board makes exactly lines_horizontal + lines_vertical calls of          *)
(* draw_multiple_lines (logical grid lines) and the drawing holds exactly  *)
(* multiple_lines * (lines_horizontal + lines_vertical) line primitives.   *)
C1_FullBoardLineCount ==
    (BoardDrawn /\ SupportedSize /\ ~opt.half_board) =>
        /\ Len(calls) = opt.lines_horizontal + opt.lines_vertical
        /\ Len(ElementsOfType(drawing, "line")) =
              opt.multiple_lines * (opt.lines_horizontal + opt.lines_vertical)

C1_Witness ==
    /\ BoardDrawn /\ SupportedSize /\ ~opt.half_board
    /\ opt.lines_horizontal = 19
    /\ opt.multiple_lines = 3
    /\ Len(calls) = 38
    /\ Len(ElementsOfType(drawing, "line")) = 114

(* C2: constructing a GoBoard with half_board true and an even             *)
(* lines_vertical fails with an error; no object and no drawing exist,     *)
(* no primitive has been produced and nothing has been written.            *)
C2_EvenHalfBoardFails ==
    (pc # "start" /\ opt.half_board /\ opt.lines_vertical % 2 = 0) =>
        /\ pc = "failed"
        /\ error = "Exception"
        /\ ~self.constructed
        /\ drawing.isNone
        /\ calls = <<>>
        /\ files = <<>>

C2_Witness ==
    /\ pc = "failed"
    /\ opt.half_board
    /\ opt.lines_vertical = 12
    /\ error = "Exception"

(* C3: draw_test completes and emits exactly 10 rows of strokes, one per   *)
(* entry of the sweep, on a canvas of width 30 and height 120.             *)
C3_CalibrationSheetCompletes ==
    TestDrawn =>
        /\ error = "none"
        /\ Len(calls) = 10
        /\ Len(ElementsOfType(drawing, "line")) = 5 * 2 + 5 * 3
        /\ drawing.viewBox = <<0, 0, 30, 120>>

C3_TestAborts ==
    /\ TestDrawn
    /\ error = "TypeError"
    /\ Len(ElementsOfType(drawing, "line")) = 0

\* Vocabulary of C4
C4_Shift == (opt.lines_vertical + 1) \div 2 - 1

C4_Center(point) ==
    <<opt.margin + point[1] * opt.spacing_horizontal - Half(opt.multiple_lines_spacing),
      (point[2] - C4_Shift) * opt.spacing_vertical - Half(opt.multiple_lines_spacing)>>

C4_Centers == {drawing.elements[i].p1 :
                  i \in {j \in DOMAIN drawing.elements : drawing.elements[j].type = "circle"}}

(* C4: on a half board every star point's gy is moved by                   *)
(* -(lines_vertical' - 1), lines_vertical' the halved count; exactly the   *)
(* star points whose moved gy is < 0 are absent from the drawing, every    *)
(* other one is drawn, and no error is raised.  For size 13 the shift is   *)
(* 6: the star (3,3) is dropped and the star (6,6) is kept at gy = 0.      *)
C4_HalfBoardStarPoints ==
    (BoardDrawn /\ opt.half_board) =>
        /\ error = "none"
        /\ \A i \in DOMAIN opt.star_points :
              (opt.star_points[i][2] - C4_Shift < 0) <=>
                  (C4_Center(opt.star_points[i]) \notin C4_Centers)
        /\ Len(ElementsOfType(drawing, "circle")) =
              opt.multiple_lines *
              Cardinality({i \in DOMAIN opt.star_points : opt.star_points[i][2] - C4_Shift >= 0})
        /\ (opt.lines_vertical = 13) =>
              /\ C4_Shift = 6
              /\ C4_Center(<<3, 3>>) \notin C4_Centers
              /\ C4_Center(<<6, 6>>) \in C4_Centers
              /\ C4_Center(<<6, 6>>)[2] = 0 - Half(opt.multiple_lines_spacing)

C4_Witness ==
    /\ BoardDrawn /\ opt.half_board
    /\ opt.lines_vertical = 13
    /\ C4_Center(<<6, 6>>) \in C4_Centers
    /\ C4_Center(<<3, 3>>) \notin C4_Centers
    /\ Len(ElementsOfType(drawing, "circle")) = 3 * opt.multiple_lines

\* Vocabulary of C5
C5_VerticalCalls == SelectSeq(calls, LAMBDA c : c.direction = "vertical")

(* C5: for a half board with an odd lines_vertical L the constructor sets  *)
(* the vertical line count to (L + 1) / 2 (7 -> 4, 9 -> 5, 13 -> 7,        *)
(* 19 -> 10), and draw() then makes that many draw_multiple_lines calls    *)
(* in the 'vertical' direction.                                            *)
C5_HalfBoardLineCount ==
    (pc = "constructed" /\ opt.half_board) =>
        /\ 2 * self.lines_vertical = opt.lines_vertical + 1
        /\ <<opt.lines_vertical, self.lines_vertical>> \in
              {<<7, 4>>, <<9, 5>>, <<13, 7>>, <<19, 10>>}
        /\ BoardDrawn => 2 * Len(C5_VerticalCalls) = opt.lines_vertical + 1

C5_Witness ==
    /\ BoardDrawn /\ opt.half_board
    /\ opt.lines_vertical = 13
    /\ self.lines_vertical = 7
    /\ Len(C5_VerticalCalls) = 7

(* C6: width = (lines_horizontal - 1) * spacing_horizontal + linewidth +   *)
(* 2 * margin for every board; height = (lines_vertical - 1) *             *)
(* spacing_vertical + linewidth + 2 * margin for a full board, and with a  *)
(* single margin and the halved line count for a half board; for size 13,  *)
(* full board, spacing 22, margin 15, linewidth 0.15 the width is 294.15   *)
(* (29415 hundredths).                                                     *)
C6_Dimensions ==
    (pc = "constructed") =>
        /\ self.width = (opt.lines_horizontal - 1) * opt.spacing_horizontal
                        + opt.linewidth + 2 * opt.margin
        /\ ~opt.half_board =>
              self.height = (opt.lines_vertical - 1) * opt.spacing_vertical
                            + opt.linewidth + 2 * opt.margin
        /\ opt.half_board =>
              self.height = ((opt.lines_vertical + 1) \div 2 - 1) * opt.spacing_vertical
                            + opt.linewidth + opt.margin
        /\ (/\ opt.lines_horizontal = 13 /\ ~opt.half_board
            /\ opt.spacing_horizontal = 22 * Scale /\ opt.margin = 15 * Scale
            /\ 100 * opt.linewidth = 15 * Scale) =>
              100 * self.width = 29415 * Scale

C6_Witness ==
    /\ pc = "constructed"
    /\ opt.lines_horizontal = 13 /\ ~opt.half_board
    /\ opt.spacing_horizontal = 22 * Scale /\ opt.margin = 15 * Scale
    /\ 100 * self.width = 29415 * Scale

\* Vocabulary of C7
C7_Stroke(c, l) == GridStrokes(drawing)[(c - 1) * opt.multiple_lines + l + 1]

C7_Axis(c) == calls[c].dir_count + 1

(* C7: stroke l (0 <= l < multiple_lines) of a logical line is displaced   *)
(* from the line given to draw_multiple_lines by                           *)
(* (l - multiple_lines / 2) * multiple_lines_spacing on the axis dir_count *)
(* only, both endpoints alike; for multiple_lines = 2 and spacing 0.25 the *)
(* offsets are -0.25 and 0.0.                                              *)
C7_StrokeOffsets ==
    BoardDrawn =>
        /\ Len(GridStrokes(drawing)) = Len(calls) * opt.multiple_lines
        /\ \A c \in DOMAIN calls : \A l \in 0..(opt.multiple_lines - 1) :
              LET e == C7_Stroke(c, l)
                  a == C7_Axis(c)
                  b == 3 - a
              IN /\ 2 * (e.p1[a] - calls[c].start[a]) =
                       (2 * l - opt.multiple_lines) * opt.multiple_lines_spacing
                 /\ e.p2[a] - calls[c].end[a] = e.p1[a] - calls[c].start[a]
                 /\ e.p1[b] = calls[c].start[b]
                 /\ e.p2[b] = calls[c].end[b]
                 /\ (opt.multiple_lines = 2 /\ 100 * opt.multiple_lines_spacing = 25 * Scale) =>
                       100 * (e.p1[a] - calls[c].start[a]) = (IF l = 0 THEN -25 ELSE 0) * Scale

C7_Witness ==
    /\ BoardDrawn
    /\ opt.multiple_lines = 2
    /\ 100 * opt.multiple_lines_spacing = 25 * Scale
    /\ 100 * (C7_Stroke(1, 0).p1[C7_Axis(1)] - calls[1].start[C7_Axis(1)]) = -25 * Scale
    /\ C7_Stroke(1, 1).p1 = calls[1].start

\* Vocabulary of C8
C8_MainBuilt == pc \in {"built", "drawn", "done"}

(* C8: the -m/--margin value given on the command line is the margin of    *)
(* the GoBoard that main builds (in width, height and the grid origin),    *)
(* as the --rounded_corners value is its corner radius.                    *)
C8_MarginOverride ==
    (C8_MainBuilt /\ args.margin.given) =>
        /\ self.margin = DecimalValue(args.margin.text) * Scale
        /\ self.width = (self.lines_horizontal - 1) * self.spacing_horizontal
                        + self.linewidth + 2 * DecimalValue(args.margin.text) * Scale
        /\ BoardDrawn => calls[1].start[1] = DecimalValue(args.margin.text) * Scale

\* what main does instead: the margin is the default whatever -m says, while
\* --rounded_corners is taken over
C8_MarginIgnored ==
    C8_MainBuilt =>
        /\ self.margin = DefaultOptions.margin
        /\ args.rounded_corners.given =>
              self.rounded_corners = DecimalValue(args.rounded_corners.text) * Scale

(* C9: the drawing that draw() creates declares a viewBox '0 0 w h' whose  *)
(* w and h equal the board's computed width and height, the values of the  *)
(* drawing's explicit size, also when they are not whole (294.15).         *)
C9_ViewBoxSpansDimensions ==
    BoardDrawn =>
        /\ drawing.viewBox[1] = 0 /\ drawing.viewBox[2] = 0
        /\ drawing.viewBox[3] * Scale = self.width
        /\ drawing.viewBox[4] * Scale = self.height
        /\ drawing.viewBox[3] = drawing.size[1].whole /\ drawing.size[1].micro = 0
        /\ drawing.viewBox[4] = drawing.size[2].whole /\ drawing.size[2].micro = 0

\* what draw() does instead: the viewBox holds the whole parts only, the
\* explicit size the exact dimensions
C9_ViewBoxTruncated ==
    BoardDrawn =>
        /\ drawing.viewBox[3] = self.width \div Scale
        /\ drawing.viewBox[4] = self.height \div Scale
        /\ drawing.size[1].whole * 1000000 + drawing.size[1].micro =
              self.width * (1000000 \div Scale)

\* Vocabulary of C10
C10_Complete(d) ==
    IF d.kind = "draw"
    THEN Len(d.elements) =
            (IF self.border THEN (IF self.half_board THEN 2 ELSE 1) ELSE 0)
            + self.multiple_lines * (self.lines_horizontal + self.lines_vertical)
            + self.multiple_lines *
              Cardinality({i \in DOMAIN self.star_points :
                              self.star_points[i][2] - vert_pos_offset(self) >= 0})
    ELSE Len(d.elements) = 1 + 5 * 2 + 5 * 3

(* C10: in a run of main the output file is written at most once, and only *)
(* after the constructor and the chosen drawing operation returned without *)
(* error, with the complete primitive sequence; a run that raised has      *)
(* written nothing.                                                        *)
C10_WriteOnceAfterDrawing ==
    /\ Len(files) <= 1
    /\ (files # <<>>) =>
          /\ pc = "done"
          /\ error = "none"
          /\ self.constructed
          /\ ~drawing.isNone
          /\ files[1].drawing = drawing
          /\ drawing.kind = (IF args.test THEN "draw_test" ELSE "draw")
          /\ C10_Complete(drawing)
    /\ (error # "none") => (pc = "aborted" /\ files = <<>>)
    /\ (pc = "aborted") => (error # "none" /\ files = <<>>)

C10_Witness ==
    /\ pc = "done"
    /\ Len(files) = 1
    /\ files[1].filename = "out.svg"
    /\ files[1].drawing.kind = "draw"
    /\ Len(files[1].drawing.elements) > 0

\* a run that raised while drawing: a partial drawing exists, no file does
C10_AbortWitness ==
    /\ pc = "aborted"
    /\ ~drawing.isNone
    /\ files = <<>>

====
